---- MODULE Spec2Model ----
(***************************************************************************)
(* Model of SuperSexySteamDownloader.py: the chunk verifier, the download  *)
(* workers, the verify/download reconciliation loop and the depot          *)
(* aggregation of download_game.                                           *)
(***************************************************************************)
EXTENDS Integers, Sequences, FiniteSets, TLC

(* ------------------------------ bounds --------------------------------- *)
\* a local file found on disk holds at most total_size + MaxExtra bytes
MaxExtra == 0
\* number of Verify passes explored in one reconciliation run
MaxPasses == 2
\* length of the depot queue handed to download_game
MaxDepots == 3

(* ----------------------- program constants ----------------------------- *)
max_workers == 10

Byte == {0, 1}

Min(x, y) == IF x < y THEN x ELSE y
Max(x, y) == IF x > y THEN x ELSE y

RECURSIVE SumSeq(_)
SumSeq(s) == IF s = <<>> THEN 0 ELSE Head(s) + SumSeq(Tail(s))

RECURSIVE Concat(_)
Concat(ss) == IF ss = <<>> THEN <<>> ELSE Head(ss) \o Concat(Tail(ss))

SeqsUpTo(S, n) == UNION {[1..k -> S] : k \in 0..n}

(* ------------------- the target file set of one run -------------------- *)
\* hashlib.sha1(data).digest(): a digest is a value of its own kind, equal
\* for equal data only
sha1(bytes) == <<"sha1", bytes>>

\* all_files_in_manifest, in master_file_map order; "d" is a directory entry
all_files == <<"a", "d", "b">>
FileNames == {all_files[i] : i \in 1..Len(all_files)}

\* the chunk payloads the remote serves for each file, in layout order
Payload(f) ==
    CASE f = "a" -> << <<0, 1>>, <<1>> >>
      [] f = "b" -> << <<1>> >>
      [] OTHER   -> << >>

is_directory(f) == f = "d"

\* file_info.chunks: cb_original and sha of every chunk
chunks(f) == [i \in 1..Len(Payload(f)) |->
                [cb_original |-> Len(Payload(f)[i]), sha |-> sha1(Payload(f)[i])]]

\* file_info.size
size(f) == SumSeq([i \in 1..Len(chunks(f)) |-> chunks(f)[i].cb_original])

\* the bytes of the complete file
Content(f) == Concat(Payload(f))

\* sum of cb_original over chunks 1..n
PrefixSize(f, n) == SumSeq([i \in 1..n |-> chunks(f)[i].cb_original])

(* ------------------------------- state --------------------------------- *)
VARIABLES
    pc,                 \* state of _execute_verification_and_download_cycle
    verify_only,        \* its verify_only parameter / local
    vidx,               \* position of the "for file_info in all_files" loop
    files_to_download,  \* list built by the Verify pass
    total_download_size,
    exists,             \* safe_path.exists() for every file
    data,               \* bytes of every local file (<<>> when absent)
    offset,             \* file_info.offset of every file entry
    task,               \* state of the pool task of every file
    pbar,               \* aggregate progress counter of the phase
    passes,             \* number of Verify passes started
    last,               \* record of the most recent _verify_and_repair_file call
    vr,                 \* per file: outcome of its most recent verify call
    max_off,            \* per file: largest verified_offset computed so far
    depots_to_download, \* the depot queue of download_game
    didx,               \* position of the "for depot in ..." loop
    master_file_map,    \* insertion-ordered path -> (file_info, depot_id)
    overwrite_log,      \* self.overwrite_log
    futures,            \* the futures list of one Download phase
    collected,          \* app id and depot list handed to _write_sfd_file
    sfd_file,           \* lines of the .sfd file on disk
    sfd_defect,         \* how the file was damaged after it was written
    app_id,             \* self.app_id
    cdn_manifests,      \* self.cdn.manifests
    cdn_depot_keys,     \* self.cdn.depot_keys
    lpos,               \* number of the line the next readline returns
    load_pc,            \* position of _load_sfd_from_path
    load_result,        \* how the most recent load or clear ended
    lua_file,           \* lines of the selected .lua file
    lua_pos,            \* position of the loop convert_lua_workflow is in
    parsed_depots,      \* its parsed_depots dict, in insertion order
    manifest_files,     \* (depot id, manifest id) of the .manifest files present
    lua_pc,             \* position of convert_lua_workflow
    game_pc,            \* position of download_game after the aggregation
    final_log,          \* lines of overwritten_files.txt
    temp_log,           \* lines of overwritten_files.tmp
    prev_log,           \* final_log as download_game found it
    self_depots,        \* self.depots of the generator, in insertion order
    shared_depots,      \* self.shared_depots, in insertion order
    product_info,       \* depot entries parse_app_data has still to visit
    acf,                \* what generate_acf_content returned
    acf_pc,             \* position of the generator's run
    disk0               \* the local files as a verify-only run found them

cycle_vars == <<pc, verify_only, vidx, files_to_download, total_download_size,
                exists, data, offset, task, pbar, passes, last, vr, max_off>>
agg_vars == <<depots_to_download, didx, master_file_map, overwrite_log>>
pool_vars == <<futures>>
sfd_vars == <<collected, sfd_file, sfd_defect, app_id, cdn_manifests,
              cdn_depot_keys, lpos, load_pc, load_result>>
lua_vars == <<lua_file, lua_pos, parsed_depots, manifest_files, lua_pc>>
game_vars == <<game_pc, final_log, temp_log, prev_log>>
acf_vars == <<self_depots, shared_depots, product_info, acf, acf_pc>>
aux_vars == <<game_vars, acf_vars, disk0>>
ext_vars == <<pool_vars, sfd_vars, lua_vars, aux_vars>>
vars == <<cycle_vars, agg_vars, ext_vars>>

(* --------------------------- chunk verifier ---------------------------- *)
\* f.read(n) at file position pos
Read(bytes, pos, n) == SubSeq(bytes, pos + 1, Min(pos + n, Len(bytes)))

\* ScanChunks without the digest comparison
RECURSIVE ScanChunks_NoHash(_, _, _, _, _)
ScanChunks_NoHash(cs, i, bytes, pos, verified_offset) ==
    IF i > Len(cs) THEN verified_offset
    ELSE LET d == Read(bytes, pos, cs[i].cb_original) IN
         IF d = <<>> THEN verified_offset
         ELSE ScanChunks_NoHash(cs, i + 1, bytes, pos + Len(d),
                                verified_offset + cs[i].cb_original)

\* the "for chunk in file_info.chunks" loop: returns verified_offset
RECURSIVE ScanChunks(_, _, _, _, _)
ScanChunks(cs, i, bytes, pos, verified_offset) ==
    IF i > Len(cs) THEN verified_offset
    ELSE LET d == Read(bytes, pos, cs[i].cb_original) IN
         IF d = <<>> THEN verified_offset
         ELSE IF sha1(d) # cs[i].sha THEN verified_offset
         ELSE ScanChunks(cs, i + 1, bytes, pos + Len(d),
                         verified_offset + cs[i].cb_original)

\* Truncate that empties the file
Truncate_ToZero(bytes, n) == <<>>

\* f.truncate(n) on a file opened 'r+b'
Truncate(bytes, n) ==
    IF n <= Len(bytes) THEN SubSeq(bytes, 1, n)
    ELSE bytes \o [i \in 1..(n - Len(bytes)) |-> 0]

\* file_info.seek(n): the offset is clamped to [0, size]
Seek(f, n) == Max(0, Min(size(f), n))

\* VerifyAbsent that leaves an empty file behind
VerifyAbsent_Creates(f, off) ==
    [ret |-> FALSE, exists |-> TRUE, data |-> <<>>, offset |-> Seek(f, 0),
     verified_offset |-> 0, io |-> FALSE, truncated |-> FALSE]

\* branch "if not safe_path.exists()"
VerifyAbsent(f, off) ==
    [ret |-> FALSE, exists |-> FALSE, data |-> <<>>, offset |-> Seek(f, 0),
     verified_offset |-> 0, io |-> FALSE, truncated |-> FALSE]

\* branch "except IOError": open, read or truncate failed
VerifyIOError(f, bytes) ==
    [ret |-> FALSE, exists |-> TRUE, data |-> bytes, offset |-> Seek(f, 0),
     verified_offset |-> 0, io |-> TRUE, truncated |-> FALSE]

\* VerifyScan that never takes the "return True" branch
VerifyScan_NeverValid(f, bytes, off) ==
    LET v == ScanChunks(chunks(f), 1, bytes, 0, 0) IN
    [ret |-> FALSE, exists |-> TRUE, data |-> Truncate(bytes, v),
     offset |-> Seek(f, v), verified_offset |-> v, io |-> FALSE,
     truncated |-> TRUE]

\* the try body: scan, then return True or truncate and seek
VerifyScan(f, bytes, off) ==
    LET v == ScanChunks(chunks(f), 1, bytes, 0, 0) IN
    IF v = size(f)
    THEN [ret |-> TRUE, exists |-> TRUE, data |-> bytes, offset |-> off,
          verified_offset |-> v, io |-> FALSE, truncated |-> FALSE]
    ELSE [ret |-> FALSE, exists |-> TRUE, data |-> Truncate(bytes, v),
          offset |-> Seek(f, v), verified_offset |-> v, io |-> FALSE,
          truncated |-> TRUE]

\* _verify_and_repair_file(file_info, safe_path); io says whether the call
\* runs into an IOError
verify_and_repair_file(f, ex, bytes, off, io) ==
    IF ~ex THEN VerifyAbsent(f, off)
    ELSE IF io THEN VerifyIOError(f, bytes)
    ELSE VerifyScan(f, bytes, off)

NoCall == [file |-> "-", pre_exists |-> FALSE, pre_data |-> <<>>,
           post_exists |-> FALSE, post_data |-> <<>>, ret |-> FALSE,
           verified_offset |-> 0, io |-> FALSE, truncated |-> FALSE]
NoResult == [called |-> FALSE, ret |-> FALSE, io |-> FALSE,
             verified_offset |-> 0, post_data |-> <<>>]

(* ------------------------ reconciliation loop -------------------------- *)
InSeq(x, s) == \E i \in 1..Len(s) : s[i] = x

\* one iteration of "for file_info in all_files" of the Verify pass
VerifyFile ==
    /\ pc = "Verify"
    /\ vidx <= Len(all_files)
    /\ LET f == all_files[vidx] IN
       IF is_directory(f)
       THEN /\ vidx' = vidx + 1
            /\ UNCHANGED <<files_to_download, total_download_size, exists, data,
                           offset, last, vr, max_off>>
       ELSE \E io \in BOOLEAN :
            /\ io => exists[f]
            /\ LET r == verify_and_repair_file(f, exists[f], data[f], offset[f], io) IN
               /\ exists' = [exists EXCEPT ![f] = r.exists]
               /\ data' = [data EXCEPT ![f] = r.data]
               /\ offset' = [offset EXCEPT ![f] = r.offset]
               /\ files_to_download' =
                      IF r.ret THEN files_to_download
                      ELSE Append(files_to_download, f)
               /\ total_download_size' =
                      IF r.ret THEN total_download_size
                      ELSE total_download_size + (size(f) - r.offset)
               /\ last' = [file |-> f, pre_exists |-> exists[f], pre_data |-> data[f],
                           post_exists |-> r.exists, post_data |-> r.data,
                           ret |-> r.ret, verified_offset |-> r.verified_offset,
                           io |-> r.io, truncated |-> r.truncated]
               /\ vr' = [vr EXCEPT ![f] =
                           [called |-> TRUE, ret |-> r.ret, io |-> r.io,
                            verified_offset |-> r.verified_offset,
                            post_data |-> r.data]]
               /\ max_off' = [max_off EXCEPT ![f] = Max(@, r.verified_offset)]
            /\ vidx' = vidx + 1
    /\ UNCHANGED <<pc, verify_only, task, pbar, passes, agg_vars, ext_vars>>

\* Submit that leaves out the first file of the list
Submit_SkipsFirst(fs) ==
    [f \in FileNames |-> IF fs # <<>> /\ InSeq(f, Tail(fs)) THEN "queued" ELSE "none"]

\* "with ThreadPoolExecutor ...: futures = [executor.submit(...) for f in
\* files_to_download]": one queued task per listed file
Submit(fs) == [f \in FileNames |-> IF InSeq(f, fs) THEN "queued" ELSE "none"]

\* VerifyEnd without the verify_only branch
VerifyEnd_NoConfirm ==
    /\ pc = "Verify"
    /\ vidx > Len(all_files)
    /\ IF files_to_download = <<>>
       THEN pc' = "Done" /\ UNCHANGED <<task, pbar>>
       ELSE pc' = "Download" /\ task' = Submit(files_to_download) /\ pbar' = 0
    /\ last' = NoCall
    /\ UNCHANGED <<verify_only, vidx, files_to_download, total_download_size,
                   exists, data, offset, passes, vr, max_off, agg_vars, ext_vars>>

\* the decisions after the for loop of a Verify pass
VerifyEnd ==
    /\ pc = "Verify"
    /\ vidx > Len(all_files)
    /\ IF files_to_download = <<>>
       THEN pc' = "Done" /\ UNCHANGED <<task, pbar>>
       ELSE IF verify_only
       THEN pc' = "AwaitConfirm" /\ UNCHANGED <<task, pbar>>
       ELSE pc' = "Download" /\ task' = Submit(files_to_download) /\ pbar' = 0
    /\ last' = NoCall
    /\ UNCHANGED <<verify_only, vidx, files_to_download, total_download_size,
                   exists, data, offset, passes, vr, max_off, agg_vars, ext_vars>>

\* input("Repair now? (Y/N): ") answered Y
ConfirmYes ==
    /\ pc = "AwaitConfirm"
    /\ verify_only' = FALSE
    /\ pc' = "Download"
    /\ task' = Submit(files_to_download)
    /\ pbar' = 0
    /\ UNCHANGED <<vidx, files_to_download, total_download_size, exists, data,
                   offset, passes, last, vr, max_off, agg_vars, ext_vars>>

\* any other answer: return False
ConfirmNo ==
    /\ pc = "AwaitConfirm"
    /\ pc' = "Cancelled"
    /\ UNCHANGED <<verify_only, vidx, files_to_download, total_download_size,
                   exists, data, offset, task, pbar, passes, last, vr, max_off,
                   agg_vars, ext_vars>>

(* --------------------------- download workers -------------------------- *)
Running == {f \in FileNames : task[f] = "running"}

\* WorkerOpen that opens the file 'wb'
WorkerOpen_Truncating(f) ==
    /\ pc = "Download"
    /\ task[f] = "queued"
    /\ Cardinality(Running) < max_workers
    /\ task' = [task EXCEPT ![f] = "running"]
    /\ exists' = [exists EXCEPT ![f] = TRUE]
    /\ data' = [data EXCEPT ![f] = <<>>]
    /\ UNCHANGED <<pc, verify_only, vidx, files_to_download, total_download_size,
                   offset, pbar, passes, last, vr, max_off, agg_vars, ext_vars>>

\* a pool thread picks the task up: mkdir, then safe_path.open('ab')
WorkerOpen(f) ==
    /\ pc = "Download"
    /\ task[f] = "queued"
    /\ Cardinality(Running) < max_workers
    /\ task' = [task EXCEPT ![f] = "running"]
    /\ exists' = [exists EXCEPT ![f] = TRUE]
    /\ UNCHANGED <<data>>
    /\ UNCHANGED <<pc, verify_only, vidx, files_to_download, total_download_size,
                   offset, pbar, passes, last, vr, max_off, agg_vars, ext_vars>>

\* mkdir or open raises: caught by "except Exception", the task ends
WorkerOpenFails(f) ==
    /\ pc = "Download"
    /\ task[f] = "queued"
    /\ Cardinality(Running) < max_workers
    /\ task' = [task EXCEPT ![f] = "failed"]
    /\ UNCHANGED <<pc, verify_only, vidx, files_to_download, total_download_size,
                   exists, data, offset, pbar, passes, last, vr, max_off, agg_vars, ext_vars>>

\* WorkerWrite that counts pieces instead of bytes
WorkerWrite_CountsPieces(f) ==
    /\ pc = "Download"
    /\ task[f] = "running"
    /\ offset[f] < size(f)
    /\ \E n \in 1..(size(f) - offset[f]) :
         /\ data' = [data EXCEPT ![f] = @ \o SubSeq(Content(f), offset[f] + 1, offset[f] + n)]
         /\ offset' = [offset EXCEPT ![f] = @ + n]
         /\ pbar' = pbar + 1
    /\ UNCHANGED <<pc, verify_only, vidx, files_to_download, total_download_size,
                   exists, task, passes, last, vr, max_off, agg_vars, ext_vars>>

\* one round of "for chunk_data in file_info": the iterator hands out the
\* next n bytes of the file from file_info.offset, f_out.write appends them
WorkerWrite(f) ==
    /\ pc = "Download"
    /\ task[f] = "running"
    /\ offset[f] < size(f)
    /\ \E n \in 1..(size(f) - offset[f]) :
         /\ data' = [data EXCEPT ![f] = @ \o SubSeq(Content(f), offset[f] + 1, offset[f] + n)]
         /\ offset' = [offset EXCEPT ![f] = @ + n]
         /\ pbar' = pbar + n
    /\ UNCHANGED <<pc, verify_only, vidx, files_to_download, total_download_size,
                   exists, task, passes, last, vr, max_off, agg_vars, ext_vars>>

\* fetching or writing the next piece raises: caught, the task ends
WorkerFails(f) ==
    /\ pc = "Download"
    /\ task[f] = "running"
    /\ offset[f] < size(f)
    /\ task' = [task EXCEPT ![f] = "failed"]
    /\ UNCHANGED <<pc, verify_only, vidx, files_to_download, total_download_size,
                   exists, data, offset, pbar, passes, last, vr, max_off, agg_vars, ext_vars>>

\* the iterator is exhausted: the file is closed, the task returns
WorkerDone(f) ==
    /\ pc = "Download"
    /\ task[f] = "running"
    /\ offset[f] >= size(f)
    /\ task' = [task EXCEPT ![f] = "ok"]
    /\ UNCHANGED <<pc, verify_only, vidx, files_to_download, total_download_size,
                   exists, data, offset, pbar, passes, last, vr, max_off, agg_vars, ext_vars>>

\* DownloadEnd that gives up after a phase with a failed task
DownloadEnd_GivesUp ==
    /\ pc = "Download"
    /\ \A f \in FileNames : task[f] \in {"none", "ok", "failed"}
    /\ passes < MaxPasses
    /\ IF \E f \in FileNames : task[f] = "failed"
       THEN pc' = "Cancelled" /\ UNCHANGED <<vidx, files_to_download,
                                             total_download_size, passes>>
       ELSE /\ pc' = "Verify"
            /\ vidx' = 1
            /\ files_to_download' = <<>>
            /\ total_download_size' = 0
            /\ passes' = passes + 1
    /\ UNCHANGED <<verify_only, exists, data, offset, task, pbar, last, vr,
                   max_off, agg_vars, ext_vars>>

\* DownloadEnd that does not wait for the futures
DownloadEnd_NoWait ==
    /\ pc = "Download"
    /\ passes < MaxPasses
    /\ pc' = "Verify"
    /\ vidx' = 1
    /\ files_to_download' = <<>>
    /\ total_download_size' = 0
    /\ passes' = passes + 1
    /\ UNCHANGED <<verify_only, exists, data, offset, task, pbar, last, vr,
                   max_off, agg_vars, ext_vars>>

\* concurrent.futures.wait(futures) returns, the while loop starts over
DownloadEnd ==
    /\ pc = "Download"
    /\ \A f \in FileNames : task[f] \in {"none", "ok", "failed"}
    /\ passes < MaxPasses
    /\ pc' = "Verify"
    /\ vidx' = 1
    /\ files_to_download' = <<>>
    /\ total_download_size' = 0
    /\ passes' = passes + 1
    /\ UNCHANGED <<verify_only, exists, data, offset, task, pbar, last, vr,
                   max_off, agg_vars, ext_vars>>

(* ------------------- aggregation in download_game ---------------------- *)
DepotIds == {1, 2}
Paths == {"p", "q"}
\* what manifest.iter_files() yields for a depot, as a list of filenames
ManifestChoices == {<<>>, <<"p">>, <<"q">>, <<"p", "q">>, <<"q", "p">>}
\* a queue entry: its depot_id, the file list of its cached manifest, and
\* whether get_manifest / decrypt_filenames succeed for it
DepotChoices == [depot_id : DepotIds, files : ManifestChoices, decodable : BOOLEAN]

\* index of filename in the map, 0 when "file_info.filename in master_file_map"
\* is false
MapIndex(map, filename) ==
    IF \E m \in 1..Len(map) : map[m].filename = filename
    THEN CHOOSE m \in 1..Len(map) : map[m].filename = filename
    ELSE 0

\* MapPut that keeps the entry of the first depot
MapPut_KeepFirst(map, filename, file_info, depot_id) ==
    LET e == [filename |-> filename, file_info |-> file_info, depot_id |-> depot_id]
        m == MapIndex(map, filename)
    IN IF m = 0 THEN Append(map, e) ELSE map

\* master_file_map[filename] = (file_info, depot_id): a dict keeps the
\* position of a key that is already present
MapPut(map, filename, file_info, depot_id) ==
    LET e == [filename |-> filename, file_info |-> file_info, depot_id |-> depot_id]
        m == MapIndex(map, filename)
    IN IF m = 0 THEN Append(map, e) ELSE [map EXCEPT ![m] = e]

\* the log line appended on a collision
LogPut(log, map, filename, depot_id) ==
    LET m == MapIndex(map, filename) IN
    IF m = 0 THEN log
    ELSE Append(log, <<filename, map[m].depot_id, depot_id>>)

\* "for file_info in manifest.iter_files()" for the depot at queue position i,
\* from file j on
RECURSIVE AggFiles(_, _, _, _, _)
AggFiles(depot, i, j, map, log) ==
    IF j > Len(depot.files) THEN [map |-> map, log |-> log]
    ELSE AggFiles(depot, i, j + 1,
                  MapPut(map, depot.files[j], <<i, j>>, depot.depot_id),
                  LogPut(log, map, depot.files[j], depot.depot_id))

\* one iteration of "for depot in self.depots_to_download", try body completes
AggregateDepot ==
    /\ pc = "Idle"
    /\ didx <= Len(depots_to_download)
    /\ depots_to_download[didx].decodable
    /\ LET r == AggFiles(depots_to_download[didx], didx, 1, master_file_map,
                         overwrite_log)
       IN /\ master_file_map' = r.map
          /\ overwrite_log' = r.log
    /\ didx' = didx + 1
    /\ UNCHANGED <<depots_to_download, cycle_vars, ext_vars>>

\* get_manifest or decrypt_filenames raises: "except Exception" prints a
\* warning and the loop goes on with the next depot
AggregateDepotFails ==
    /\ pc = "Idle"
    /\ didx <= Len(depots_to_download)
    /\ ~depots_to_download[didx].decodable
    /\ didx' = didx + 1
    /\ UNCHANGED <<depots_to_download, master_file_map, overwrite_log, cycle_vars, ext_vars>>

\* all_files_in_manifest = [item[0] for item in master_file_map.values()]
all_files_in_manifest ==
    [m \in 1..Len(master_file_map) |-> master_file_map[m].file_info]

(* ----------------------------- queue codec ------------------------------ *)
\* records of a depot list handed to the writer
MaxRecords == 2

\* an Optional[int] is <<>> (None) or <<n>>
None == <<>>
Some(n) == <<n>>
NoFile == "NoFile"
NoDefect == [kind |-> "none", line |-> 0]

\* a text is a sequence of one-character strings, a file a sequence of lines
DigitChars == <<"0", "1", "2", "3", "4", "5", "6", "7", "8", "9">>
HexChars == DigitChars \o <<"a", "b", "c", "d", "e", "f">>
EndOfFile == <<"E", "n", "d", "O", "f", "F", "i", "l", "e">>

\* first position of x in sequence seq, 0 when it is not in it
IndexOf(seq, x) ==
    IF \E k \in 1..Len(seq) : seq[k] = x
    THEN CHOOSE k \in 1..Len(seq) : seq[k] = x /\ \A j \in 1..(k - 1) : seq[j] # x
    ELSE 0

\* f'{n}' for an int n >= 0
RECURSIVE IntToStr(_)
IntToStr(n) ==
    IF n < 10 THEN <<DigitChars[n + 1]>>
    ELSE IntToStr(n \div 10) \o <<DigitChars[(n % 10) + 1]>>

\* str.strip()
RECURSIVE LStrip(_)
LStrip(s) == IF s # <<>> /\ Head(s) = " " THEN LStrip(Tail(s)) ELSE s
RECURSIVE RStrip(_)
RStrip(s) ==
    IF s # <<>> /\ s[Len(s)] = " " THEN RStrip(SubSeq(s, 1, Len(s) - 1)) ELSE s
Strip(s) == RStrip(LStrip(s))

Raised == [ok |-> FALSE, val |-> 0]

RECURSIVE DigitsVal(_, _)
DigitsVal(s, acc) ==
    IF s = <<>> THEN acc
    ELSE DigitsVal(Tail(s), 10 * acc + (IndexOf(DigitChars, Head(s)) - 1))

\* int(s): raises ValueError unless s is a string of digits
ParseInt(s) ==
    IF s # <<>> /\ \A k \in 1..Len(s) : IndexOf(DigitChars, s[k]) > 0
    THEN [ok |-> TRUE, val |-> DigitsVal(s, 0)]
    ELSE Raised

\* Hex with the two digits of a byte swapped
Hex_LowFirst(bytes) ==
    Concat([k \in 1..Len(bytes) |->
              <<HexChars[(bytes[k] % 16) + 1], HexChars[(bytes[k] \div 16) + 1]>>])

\* bytes.hex()
Hex(bytes) ==
    Concat([k \in 1..Len(bytes) |->
              <<HexChars[(bytes[k] \div 16) + 1], HexChars[(bytes[k] % 16) + 1]>>])

\* bytes.fromhex(s): raises ValueError on an odd length or a character that
\* is no hexadecimal digit
FromHex(s) ==
    IF Len(s) % 2 = 0 /\ \A k \in 1..Len(s) : IndexOf(HexChars, s[k]) > 0
    THEN [ok |-> TRUE,
          val |-> [k \in 1..(Len(s) \div 2) |->
                      16 * (IndexOf(HexChars, s[2 * k - 1]) - 1)
                         + (IndexOf(HexChars, s[2 * k]) - 1)]]
    ELSE Raised

\* the printable bytes of the model and their characters
PrintBytes == <<34, 39, 65, 92>>
PrintChars == <<"\"", "'", "A", "\\">>

\* the quote repr() puts around a bytes value: double quotes when the value
\* holds a single quote and no double quote
ReprQuote(bytes) ==
    IF IndexOf(bytes, 39) > 0 /\ IndexOf(bytes, 34) = 0 THEN "\"" ELSE "'"

\* ReprByte that writes every printable byte as it is
ReprByte_NoEscape(b, q) ==
    IF b = 9 THEN <<"\\", "t">>
    ELSE IF b = 10 THEN <<"\\", "n">>
    ELSE IF b = 13 THEN <<"\\", "r">>
    ELSE IF IndexOf(PrintBytes, b) > 0 THEN <<PrintChars[IndexOf(PrintBytes, b)]>>
    ELSE <<"\\", "x", HexChars[(b \div 16) + 1], HexChars[(b % 16) + 1]>>

\* what repr() writes for one byte inside quotes q
ReprByte(b, q) ==
    IF b = 92 THEN <<"\\", "\\">>
    ELSE IF IndexOf(PrintBytes, b) > 0 /\ PrintChars[IndexOf(PrintBytes, b)] = q
    THEN <<"\\", q>>
    ELSE IF b = 9 THEN <<"\\", "t">>
    ELSE IF b = 10 THEN <<"\\", "n">>
    ELSE IF b = 13 THEN <<"\\", "r">>
    ELSE IF IndexOf(PrintBytes, b) > 0 THEN <<PrintChars[IndexOf(PrintBytes, b)]>>
    ELSE <<"\\", "x", HexChars[(b \div 16) + 1], HexChars[(b % 16) + 1]>>

\* repr(bytes)
Repr(bytes) ==
    LET q == ReprQuote(bytes)
    IN <<"b", q>> \o Concat([k \in 1..Len(bytes) |-> ReprByte(bytes[k], q)]) \o <<q>>

\* the body of a bytes literal in quotes q, read from the left
RECURSIVE DecodeBody(_, _, _)
DecodeBody(s, q, acc) ==
    IF s = <<>> THEN [ok |-> TRUE, val |-> acc]
    ELSE IF Head(s) = "\\"
    THEN IF Len(s) < 2 THEN Raised
         ELSE IF s[2] = "x"
         THEN IF Len(s) >= 4 /\ IndexOf(HexChars, s[3]) > 0
                             /\ IndexOf(HexChars, s[4]) > 0
              THEN DecodeBody(SubSeq(s, 5, Len(s)), q,
                              Append(acc, 16 * (IndexOf(HexChars, s[3]) - 1)
                                             + (IndexOf(HexChars, s[4]) - 1)))
              ELSE Raised
         ELSE IF s[2] = "t" THEN DecodeBody(SubSeq(s, 3, Len(s)), q, Append(acc, 9))
         ELSE IF s[2] = "n" THEN DecodeBody(SubSeq(s, 3, Len(s)), q, Append(acc, 10))
         ELSE IF s[2] = "r" THEN DecodeBody(SubSeq(s, 3, Len(s)), q, Append(acc, 13))
         ELSE IF s[2] \in {"\\", "'", "\""}
         THEN DecodeBody(SubSeq(s, 3, Len(s)), q,
                         Append(acc, PrintBytes[IndexOf(PrintChars, s[2])]))
         ELSE IF IndexOf(PrintChars, s[2]) > 0
         THEN DecodeBody(SubSeq(s, 3, Len(s)), q,
                         Append(Append(acc, 92), PrintBytes[IndexOf(PrintChars, s[2])]))
         ELSE Raised
    ELSE IF Head(s) = q THEN Raised
    ELSE IF IndexOf(PrintChars, Head(s)) > 0
    THEN DecodeBody(Tail(s), q, Append(acc, PrintBytes[IndexOf(PrintChars, Head(s))]))
    ELSE Raised

\* ast.literal_eval(s) for the texts a descriptor line can hold: the value
\* of a bytes literal, ValueError or SyntaxError for anything else
LiteralEval(s) ==
    IF Len(s) >= 3 /\ s[1] = "b" /\ s[2] \in {"'", "\""} /\ s[Len(s)] = s[2]
    THEN DecodeBody(SubSeq(s, 3, Len(s) - 1), s[2], <<>>)
    ELSE Raised

\* the four lines _write_sfd_file writes for one depot
DepotLines(depot) ==
    << IntToStr(depot.depot_id), IntToStr(depot.manifest_id),
       Hex(depot.depot_key), Repr(depot.manifest_content) >>

\* the file _write_sfd_file writes
SfdLines(app, depots) ==
    <<IntToStr(app)>>
      \o Concat([k \in 1..Len(depots) |-> DepotLines(depots[k])])
      \o <<EndOfFile>>

\* DepotManifestClass(cdn, app_id, content) parses content and raises on
\* bytes that are no manifest: the manifests of the model start with byte 65
ManifestMagic == 65
ManifestParses(content) == content # <<>> /\ content[1] = ManifestMagic

\* the depot lists the writer is called with
SfdAppIds == {30}
SfdDepotIds == {1, 12}
SfdManifestIds == {5}
SfdKeys == {<<>>, <<10, 171>>}
SfdPayloads == {<<65, 39, 92, 10>>, <<0, 34, 39>>}
SfdRecords == [depot_id : SfdDepotIds, manifest_id : SfdManifestIds,
               depot_key : SfdKeys, manifest_content : SfdPayloads]
\* make_sfd and convert_lua_workflow call the writer with a non-empty list
SfdInputs == [app_id : SfdAppIds,
              depots : SeqsUpTo(SfdRecords, MaxRecords) \ {<<>>}]

\* what can happen to a file between its writing and its loading: it loses
\* its tail from a line on, a line is replaced by text that is neither number,
\* hex string nor literal, or a line is lost
Defects(file) ==
    [kind : {"truncate", "replace", "delete"}, line : 1..Len(file)]
Damaged(file, d) ==
    IF d.kind = "truncate" THEN SubSeq(file, 1, d.line - 1)
    ELSE IF d.kind = "replace" THEN [file EXCEPT ![d.line] = <<"x">>]
    ELSE SubSeq(file, 1, d.line - 1) \o SubSeq(file, d.line + 1, Len(file))

\* f.readline(): "" at the end of the file
ReadLine(file, n) ==
    IF n <= Len(file) THEN [eof |-> FALSE, text |-> file[n]]
    ELSE [eof |-> TRUE, text |-> <<>>]

\* dict assignment d[key] = value, a dict being a set of [key, value] records
DictPut(d, key, value) ==
    {e \in d : e.key # key} \cup {[key |-> key, value |-> value]}

\* no queue function has run
SfdIdle ==
    /\ collected = [app_id |-> 0, depots |-> <<>>]
    /\ sfd_file = NoFile
    /\ sfd_defect = NoDefect
    /\ app_id = None
    /\ cdn_manifests = {}
    /\ cdn_depot_keys = {}
    /\ lpos = 1
    /\ load_pc = "Idle"
    /\ load_result = "none"

\* no Download phase has submitted anything
PoolIdle == futures = <<>>

\* nothing outside the loop and the aggregation has run
\* convert_lua_workflow has not been entered
LuaIdle ==
    /\ lua_file = <<>>
    /\ lua_pos = 1
    /\ parsed_depots = <<>>
    /\ manifest_files = {}
    /\ lua_pc = "Idle"

\* a log file that does not exist, a generator that has returned nothing,
\* a run that has recorded no disk
NoLog == [present |-> FALSE, text |-> <<>>]
NoAcf == <<>>
NoDisk == <<>>

\* download_game has not got past its aggregation
GameIdle ==
    /\ game_pc = "Idle"
    /\ final_log = NoLog
    /\ temp_log = NoLog
    /\ prev_log = NoLog

\* no SteamManifestGenerator has been constructed
AcfIdle ==
    /\ self_depots = <<>>
    /\ shared_depots = <<>>
    /\ product_info = <<>>
    /\ acf = NoAcf
    /\ acf_pc = "Idle"

AuxIdle == GameIdle /\ AcfIdle /\ disk0 = NoDisk

ExtIdle == PoolIdle /\ SfdIdle /\ LuaIdle /\ AuxIdle

\* the reconciliation loop has not been entered
CycleIdle ==
    /\ pc = "Idle"
    /\ verify_only = FALSE
    /\ vidx = 1
    /\ files_to_download = <<>>
    /\ total_download_size = 0
    /\ exists = [f \in FileNames |-> FALSE]
    /\ data = [f \in FileNames |-> <<>>]
    /\ offset = [f \in FileNames |-> 0]
    /\ task = [f \in FileNames |-> "none"]
    /\ pbar = 0
    /\ passes = 1
    /\ last = NoCall
    /\ vr = [f \in FileNames |-> NoResult]
    /\ max_off = [f \in FileNames |-> 0]

\* download_game entered with a non-empty queue, overwrite_log reset
AggInit ==
    /\ CycleIdle
    /\ ExtIdle
    /\ depots_to_download \in UNION {[1..k -> DepotChoices] : k \in 1..MaxDepots}
    /\ didx = 1
    /\ master_file_map = <<>>
    /\ overwrite_log = <<>>

AggNext == AggregateDepot \/ AggregateDepotFails

SpecAgg == AggInit /\ [][AggNext]_vars

(* ------------------ download_game after the aggregation ----------------- *)
\* depots in the queue of a run that is followed to its end
MaxQueue == 2

\* the text written to the log: the header and the joined log lines
LogHeader == <<"#", 0, 0>>
LogText(log) == <<LogHeader>> \o log

\* a log of an earlier run
PreviousLog == [present |-> TRUE, text |-> <<LogHeader, <<"o", 1, 2>>>>]

\* the loop over the queue is over: "if not all_files_in_manifest: ... return",
\* else the reconciliation loop is entered
AggregationEnds ==
    /\ game_pc = "Aggregate"
    /\ didx > Len(depots_to_download)
    /\ game_pc' = IF all_files_in_manifest = <<>> THEN "NoFiles" ELSE "Cycle"
    /\ UNCHANGED <<final_log, temp_log, prev_log, acf_vars, disk0, cycle_vars,
                   agg_vars, pool_vars, sfd_vars, lua_vars>>

\* _execute_verification_and_download_cycle returns True (at Done, followed
\* by the 'Game Downloaded and Verified!' report) or False (at Cancelled)
CycleReturns ==
    /\ game_pc = "Cycle"
    /\ \E success \in BOOLEAN :
          game_pc' = IF ~success THEN "Returned"
                     ELSE IF overwrite_log # <<>> THEN "WriteTemp"
                     ELSE "Generate"
    /\ UNCHANGED <<final_log, temp_log, prev_log, acf_vars, disk0, cycle_vars,
                   agg_vars, pool_vars, sfd_vars, lua_vars>>

\* temp_log_path.write_text(...)
WriteTemp ==
    /\ game_pc = "WriteTemp"
    /\ temp_log' = [present |-> TRUE, text |-> LogText(overwrite_log)]
    /\ game_pc' = "Unlink"
    /\ UNCHANGED <<final_log, prev_log, acf_vars, disk0, cycle_vars,
                   agg_vars, pool_vars, sfd_vars, lua_vars>>

\* final_log_path.unlink(missing_ok=True)
Unlink ==
    /\ game_pc = "Unlink"
    /\ final_log' = NoLog
    /\ game_pc' = "Rename"
    /\ UNCHANGED <<temp_log, prev_log, acf_vars, disk0, cycle_vars,
                   agg_vars, pool_vars, sfd_vars, lua_vars>>

\* temp_log_path.rename(final_log_path)
Rename ==
    /\ game_pc = "Rename"
    /\ final_log' = temp_log
    /\ temp_log' = NoLog
    /\ game_pc' = "Generate"
    /\ UNCHANGED <<prev_log, acf_vars, disk0, cycle_vars,
                   agg_vars, pool_vars, sfd_vars, lua_vars>>

\* the process dies before one of the three steps completes; a write that
\* was under way leaves a part of the text in the temporary file
GameCrash ==
    /\ game_pc \in {"WriteTemp", "Unlink", "Rename"}
    /\ IF game_pc = "WriteTemp"
       THEN \E n \in 0..Len(LogText(overwrite_log)) :
               temp_log' = [present |-> TRUE,
                            text |-> SubSeq(LogText(overwrite_log), 1, n)]
       ELSE UNCHANGED temp_log
    /\ game_pc' = "Crashed"
    /\ UNCHANGED <<final_log, prev_log, acf_vars, disk0, cycle_vars,
                   agg_vars, pool_vars, sfd_vars, lua_vars>>

\* self._run_manifest_generator(self.app_id, Path("."))
GenerateManifest ==
    /\ game_pc = "Generate"
    /\ game_pc' = "Finished"
    /\ UNCHANGED <<final_log, temp_log, prev_log, acf_vars, disk0, cycle_vars,
                   agg_vars, pool_vars, sfd_vars, lua_vars>>

\* download_game entered with a non-empty queue and a download directory
\* that holds a log of an earlier run or none
GameInit ==
    /\ CycleIdle
    /\ PoolIdle
    /\ SfdIdle
    /\ LuaIdle
    /\ AcfIdle
    /\ disk0 = NoDisk
    /\ depots_to_download \in UNION {[1..k -> DepotChoices] : k \in 1..MaxQueue}
    /\ didx = 1
    /\ master_file_map = <<>>
    /\ overwrite_log = <<>>
    /\ game_pc = "Aggregate"
    /\ final_log \in {NoLog, PreviousLog}
    /\ temp_log = NoLog
    /\ prev_log = final_log

GameNext ==
    \/ AggregateDepot
    \/ AggregateDepotFails
    \/ AggregationEnds
    \/ CycleReturns
    \/ WriteTemp
    \/ Unlink
    \/ Rename
    \/ GameCrash
    \/ GenerateManifest

SpecGame == GameInit /\ [][GameNext]_vars

(* ----------------------------- specification --------------------------- *)
\* local files as the run may find them
DiskChoices(f) ==
    IF is_directory(f) THEN {<<>>}
    ELSE SeqsUpTo(Byte, size(f) + MaxExtra)

CycleInit ==
    /\ pc = "Verify"
    /\ verify_only \in BOOLEAN
    /\ vidx = 1
    /\ files_to_download = <<>>
    /\ total_download_size = 0
    /\ exists \in [FileNames -> BOOLEAN]
    /\ data \in [FileNames -> SeqsUpTo(Byte, Max(size("a"), size("b")) + MaxExtra)]
    /\ \A f \in FileNames :
          /\ data[f] \in DiskChoices(f)
          /\ ~exists[f] => data[f] = <<>>
          /\ is_directory(f) => ~exists[f]
    /\ offset = [f \in FileNames |-> 0]
    /\ task = [f \in FileNames |-> "none"]
    /\ pbar = 0
    /\ passes = 1
    /\ last = NoCall
    /\ vr = [f \in FileNames |-> NoResult]
    /\ max_off = [f \in FileNames |-> 0]

\* download_game has not been entered
AggIdle ==
    /\ depots_to_download = <<>>
    /\ didx = 1
    /\ master_file_map = <<>>
    /\ overwrite_log = <<>>

Init == CycleInit /\ AggIdle /\ ExtIdle

Next ==
    \/ VerifyFile
    \/ VerifyEnd
    \/ ConfirmYes
    \/ ConfirmNo
    \/ \E f \in FileNames : WorkerOpen(f)
    \/ \E f \in FileNames : WorkerOpenFails(f)
    \/ \E f \in FileNames : WorkerWrite(f)
    \/ \E f \in FileNames : WorkerFails(f)
    \/ \E f \in FileNames : WorkerDone(f)
    \/ DownloadEnd

Spec == Init /\ [][Next]_vars

\* a verify-only run (menu entry "Verify"), with the local files it found
\* recorded
VerifyOnlyInit ==
    /\ CycleInit
    /\ verify_only
    /\ AggIdle
    /\ PoolIdle
    /\ SfdIdle
    /\ LuaIdle
    /\ GameIdle
    /\ AcfIdle
    /\ disk0 = <<[exists |-> exists, data |-> data]>>

\* the run up to the answer to "Repair now?": after a yes it goes on as a
\* repair run, which Spec follows
VerifyOnlyNext == VerifyFile \/ VerifyEnd \/ ConfirmYes \/ ConfirmNo

SpecVerifyOnly == VerifyOnlyInit /\ [][VerifyOnlyNext]_vars

(* --------------------------- queue functions --------------------------- *)
\* the queue and the caches derived from it
QueueState ==
    [app_id |-> app_id, depots |-> depots_to_download, log |-> overwrite_log,
     manifests |-> cdn_manifests, keys |-> cdn_depot_keys]

SetQueue(q) ==
    /\ app_id' = q.app_id
    /\ depots_to_download' = q.depots
    /\ overwrite_log' = q.log
    /\ cdn_manifests' = q.manifests
    /\ cdn_depot_keys' = q.keys

\* reset_queue that leaves the caches of the CDN client alone
reset_queue_KeepsCaches(q) ==
    [q EXCEPT !.app_id = None, !.depots = <<>>, !.log = <<>>]

\* _reset_queue
reset_queue(q) ==
    [q EXCEPT !.app_id = None, !.depots = <<>>, !.log = <<>>,
              !.manifests = {}, !.keys = {}]

\* make_sfd or convert_lua_workflow writes the collected depots
WriteSfd ==
    /\ load_pc = "Idle"
    /\ sfd_file = NoFile
    /\ sfd_file' = SfdLines(collected.app_id, collected.depots)
    /\ UNCHANGED <<collected, sfd_defect, app_id, cdn_manifests, cdn_depot_keys,
                   lpos, load_pc, load_result, cycle_vars, agg_vars, pool_vars, lua_vars, aux_vars>>

\* the file is damaged outside the program
Damage ==
    /\ load_pc = "Idle"
    /\ sfd_file # NoFile
    /\ sfd_defect = NoDefect
    /\ \E d \in Defects(sfd_file) :
          /\ sfd_file' = Damaged(sfd_file, d)
          /\ sfd_defect' = d
    /\ UNCHANGED <<collected, app_id, cdn_manifests, cdn_depot_keys,
                   lpos, load_pc, load_result, cycle_vars, agg_vars, pool_vars, lua_vars, aux_vars>>

\* _load_sfd_from_path up to the while loop: the queue is reset, the file is
\* opened and its first line is read as the app id; an exception resets the
\* queue again and ends the load
LoadStart ==
    /\ load_pc = "Idle"
    /\ sfd_file # NoFile
    /\ LET q0 == reset_queue(QueueState)
           r == ParseInt(Strip(ReadLine(sfd_file, 1).text))
       IN IF r.ok
          THEN /\ SetQueue([q0 EXCEPT !.app_id = Some(r.val)])
               /\ load_pc' = "Records"
               /\ lpos' = 2
               /\ load_result' = "loading"
          ELSE /\ SetQueue(reset_queue(q0))
               /\ load_pc' = "Idle"
               /\ lpos' = 1
               /\ load_result' = "error"
    /\ UNCHANGED <<collected, sfd_file, sfd_defect, cycle_vars, didx,
                   master_file_map, pool_vars, lua_vars, aux_vars>>

\* one iteration of the while loop of _load_sfd_from_path
LoadRecord ==
    /\ load_pc = "Records"
    /\ LET line1 == ReadLine(sfd_file, lpos)
           line2 == ReadLine(sfd_file, lpos + 1)
           line3 == ReadLine(sfd_file, lpos + 2)
           line4 == ReadLine(sfd_file, lpos + 3)
           depot_id == ParseInt(Strip(line1.text))
           manifest_id == ParseInt(Strip(line2.text))
           depot_key == FromHex(Strip(line3.text))
           manifest_content == LiteralEval(Strip(line4.text))
           depot_info == [depot_id |-> depot_id.val,
                          manifest_id |-> manifest_id.val,
                          depot_key |-> depot_key.val,
                          manifest_content |-> manifest_content.val]
       IN IF line1.eof \/ Strip(line1.text) = EndOfFile
          THEN /\ load_pc' = "Idle" /\ lpos' = 1 /\ load_result' = "loaded"
               /\ SetQueue(QueueState)
          ELSE IF line2.eof \/ line3.eof \/ line4.eof
          THEN /\ load_pc' = "Idle" /\ lpos' = 1 /\ load_result' = "incomplete"
               /\ SetQueue(QueueState)
          ELSE IF /\ depot_id.ok /\ manifest_id.ok /\ depot_key.ok
                  /\ manifest_content.ok
                  /\ ManifestParses(manifest_content.val)
          THEN /\ SetQueue([QueueState EXCEPT
                              !.depots = Append(@, depot_info),
                              !.keys = DictPut(@, depot_id.val, depot_key.val),
                              !.manifests =
                                  DictPut(@, <<app_id, depot_id.val, manifest_id.val>>,
                                          manifest_content.val)])
               /\ lpos' = lpos + 4
               /\ UNCHANGED <<load_pc, load_result>>
          ELSE /\ SetQueue(reset_queue(QueueState))
               /\ load_pc' = "Idle" /\ lpos' = 1 /\ load_result' = "error"
    /\ UNCHANGED <<collected, sfd_file, sfd_defect, cycle_vars, didx,
                   master_file_map, pool_vars, lua_vars, aux_vars>>

\* menu entry 9: _reset_queue on its own
ClearQueue ==
    /\ load_pc = "Idle"
    /\ SetQueue(reset_queue(QueueState))
    /\ load_result' = "cleared"
    /\ UNCHANGED <<collected, sfd_file, sfd_defect, lpos, load_pc, cycle_vars,
                   didx, master_file_map, pool_vars, lua_vars, aux_vars>>

\* a session in which a depot list is about to be written
SfdInit ==
    /\ CycleIdle
    /\ AggIdle
    /\ PoolIdle
    /\ LuaIdle
    /\ AuxIdle
    /\ collected \in SfdInputs
    /\ sfd_file = NoFile
    /\ sfd_defect = NoDefect
    /\ app_id = None
    /\ cdn_manifests = {}
    /\ cdn_depot_keys = {}
    /\ lpos = 1
    /\ load_pc = "Idle"
    /\ load_result = "none"

SfdNext == WriteSfd \/ Damage \/ LoadStart \/ LoadRecord \/ ClearQueue

SpecSfd == SfdInit /\ [][SfdNext]_vars

(* ----------------------------- Lua importer ---------------------------- *)
\* lines of a .lua file
MaxLuaLines == 3

\* what the two regular expressions find in a line: an addappid directive
\* with depot id and hex key, a setManifestid directive with depot id and
\* manifest id, or neither
LuaDepotIds == {1, 2}
LuaManifestId == 5
LuaKeys == {<<"0", "a", "a", "b">>, <<"a", "b", "c">>}
LuaLines ==
    [kind : {"addappid"}, depot_id : LuaDepotIds, key : LuaKeys]
      \cup [kind : {"setManifestid"}, depot_id : LuaDepotIds,
            manifest_id : {LuaManifestId}]
      \cup {[kind |-> "other"]}

\* manifest_path.read_bytes() of a .manifest file
ManifestFileBytes == <<65, 0>>

\* position of depot id d in parsed_depots, 0 when it is no key of the dict
ParsedIndex(parsed, d) ==
    IF \E k \in 1..Len(parsed) : parsed[k].depot_id = d
    THEN CHOOSE k \in 1..Len(parsed) : parsed[k].depot_id = d
    ELSE 0

\* parsed_depots[int(depot_id)] = {'key': depot_key}: a new dict value
PutKey(parsed, d, key) ==
    LET e == [depot_id |-> d, key |-> key, has_manifest |-> FALSE, manifest_id |-> 0]
        k == ParsedIndex(parsed, d)
    IN IF k = 0 THEN Append(parsed, e) ELSE [parsed EXCEPT ![k] = e]

\* if int(depot_id) in parsed_depots: parsed_depots[...]['manifest_id'] = ...
PutManifest(parsed, d, m) ==
    LET k == ParsedIndex(parsed, d)
    IN IF k = 0 THEN parsed
       ELSE [parsed EXCEPT ![k].has_manifest = TRUE, ![k].manifest_id = m]

\* one round of "for line in f"
LuaLine ==
    /\ lua_pc = "Parse"
    /\ lua_pos <= Len(lua_file)
    /\ LET line == lua_file[lua_pos]
       IN parsed_depots' =
             IF line.kind = "addappid"
             THEN PutKey(parsed_depots, line.depot_id, line.key)
             ELSE IF line.kind = "setManifestid"
             THEN PutManifest(parsed_depots, line.depot_id, line.manifest_id)
             ELSE parsed_depots
    /\ lua_pos' = lua_pos + 1
    /\ UNCHANGED <<aux_vars, lua_file, manifest_files, lua_pc, cycle_vars, agg_vars,
                   pool_vars, sfd_vars>>

\* the file is read: "if not parsed_depots: ... return"
LuaParsed ==
    /\ lua_pc = "Parse"
    /\ lua_pos > Len(lua_file)
    /\ lua_pc' = IF parsed_depots = <<>> THEN "Failed" ELSE "Collect"
    /\ lua_pos' = 1
    /\ UNCHANGED <<aux_vars, lua_file, parsed_depots, manifest_files, cycle_vars, agg_vars,
                   pool_vars, sfd_vars>>

\* one round of "for depot_id, data in parsed_depots.items()"
LuaCollect ==
    /\ lua_pc = "Collect"
    /\ lua_pos <= Len(parsed_depots)
    /\ LET e == parsed_depots[lua_pos]
           depot_key == FromHex(e.key)
           depot_data == [depot_id |-> e.depot_id, manifest_id |-> e.manifest_id,
                          depot_key |-> depot_key.val,
                          manifest_content |-> ManifestFileBytes]
       IN collected' =
             IF /\ e.has_manifest
                /\ <<e.depot_id, e.manifest_id>> \in manifest_files
                /\ depot_key.ok
             THEN [collected EXCEPT !.depots = Append(@, depot_data)]
             ELSE collected
    /\ lua_pos' = lua_pos + 1
    /\ UNCHANGED <<aux_vars, lua_file, parsed_depots, manifest_files, lua_pc, cycle_vars,
                   agg_vars, pool_vars, sfd_file, sfd_defect, app_id,
                   cdn_manifests, cdn_depot_keys, lpos, load_pc, load_result>>

\* after the loop: "Conversion failed." or _write_sfd_file; the load of the
\* written file follows
LuaWrite ==
    /\ lua_pc = "Collect"
    /\ lua_pos > Len(parsed_depots)
    /\ IF collected.depots = <<>>
       THEN lua_pc' = "Failed" /\ UNCHANGED sfd_file
       ELSE /\ lua_pc' = "Written"
            /\ sfd_file' = SfdLines(collected.app_id, collected.depots)
    /\ UNCHANGED <<aux_vars, lua_file, lua_pos, parsed_depots, manifest_files, cycle_vars,
                   agg_vars, pool_vars, collected, sfd_defect, app_id,
                   cdn_manifests, cdn_depot_keys, lpos, load_pc, load_result>>

\* a .lua file has been selected and the app id entered
LuaInit ==
    /\ CycleIdle
    /\ AggIdle
    /\ PoolIdle
    /\ AuxIdle
    /\ collected = [app_id |-> 30, depots |-> <<>>]
    /\ sfd_file = NoFile
    /\ sfd_defect = NoDefect
    /\ app_id = None
    /\ cdn_manifests = {}
    /\ cdn_depot_keys = {}
    /\ lpos = 1
    /\ load_pc = "Idle"
    /\ load_result = "none"
    /\ lua_file \in SeqsUpTo(LuaLines, MaxLuaLines)
    /\ lua_pos = 1
    /\ parsed_depots = <<>>
    /\ manifest_files \in SUBSET {<<d, LuaManifestId>> : d \in LuaDepotIds}
    /\ lua_pc = "Parse"

LuaNext == LuaLine \/ LuaParsed \/ LuaCollect \/ LuaWrite \/ LoadStart \/ LoadRecord

SpecLua == LuaInit /\ [][LuaNext]_vars

(* ------------------------- SteamManifestGenerator ----------------------- *)
\* entries of the 'depots' section of the product info
MaxAcfDepots == 3

\* the depot ids the section may hold, and what an entry may say
AcfDepotIdList == <<20, 10, 9, 3>>
AcfDepotIds == {AcfDepotIdList[k] : k \in 1..Min(MaxAcfDepots, Len(AcfDepotIdList))}
AcfSizes == {50, 100}
AcfEntries ==
    [depot_id_str : {IntToStr(d) : d \in AcfDepotIds},
     kind : {"installable"}, gid : {5}, size : {IntToStr(n) : n \in AcfSizes}]
      \cup [depot_id_str : {IntToStr(d) : d \in AcfDepotIds},
            kind : {"shared"}, depotfromapp : {IntToStr(7)}]
      \cup [depot_id_str : {IntToStr(d) : d \in AcfDepotIds},
            kind : {"nomanifest"}]

\* the section as a dict: a list of entries with distinct keys, in the order
\* .items() yields them
ProductInfos ==
    {info \in SeqsUpTo(AcfEntries, MaxAcfDepots) :
        \A j, k \in 1..Len(info) :
           j # k => info[j].depot_id_str # info[k].depot_id_str}

\* dict[key] = value for a dict kept as a list of entries with a depot_id
PutDepot(dict, e) ==
    LET k == ParsedIndex(dict, e.depot_id)
    IN IF k = 0 THEN Append(dict, e) ELSE [dict EXCEPT ![k] = e]

\* "for depot_id_str, depot_info in depots_data.items()" from entry k on
RECURSIVE ParseEntries(_, _, _, _)
ParseEntries(info, k, deps, shared) ==
    IF k > Len(info) THEN [depots |-> deps, shared_depots |-> shared]
    ELSE LET e == info[k]
             id == ParseInt(e.depot_id_str)
         IN IF ~id.ok THEN ParseEntries(info, k + 1, deps, shared)
            ELSE IF e.kind = "shared"
            THEN ParseEntries(info, k + 1, deps,
                    PutDepot(shared, [depot_id |-> id.val,
                                      parent |-> ParseInt(e.depotfromapp).val]))
            ELSE IF e.kind = "nomanifest"
            THEN ParseEntries(info, k + 1, deps, shared)
            ELSE ParseEntries(info, k + 1,
                    PutDepot(deps, [depot_id |-> id.val, manifest |-> e.gid,
                                    size |-> ParseInt(e.size).val]),
                    shared)

\* the items of a dict in ascending order of their depot id
RECURSIVE SortItems(_)
SortItems(items) ==
    IF items = <<>> THEN <<>>
    ELSE LET k == CHOOSE k \in 1..Len(items) :
                     \A j \in 1..Len(items) : items[k].depot_id <= items[j].depot_id
         IN <<items[k]>>
              \o SortItems([j \in 1..(Len(items) - 1) |->
                              IF j < k THEN items[j] ELSE items[j + 1]])

\* sorted() that leaves the items in the order of the dict
sorted_Unsorted(items) == items

\* sorted(dict.items()): the keys are ints and distinct, so the items come
\* out in ascending numeric order of depot id
sorted(items) == SortItems(items)

\* what generate_acf_content puts into the text: the SizeOnDisk value and
\* the entries of the two blocks, each number formatted as the f-string
\* formats it (the dlcappid line of an entry is left out)
generate_acf_content(deps, shared) ==
    [SizeOnDisk |-> IntToStr(SumSeq([k \in 1..Len(deps) |-> deps[k].size])),
     InstalledDepots |->
        [k \in 1..Len(deps) |->
            [depot_id |-> IntToStr(sorted(deps)[k].depot_id),
             manifest |-> sorted(deps)[k].manifest,
             size |-> IntToStr(sorted(deps)[k].size)]],
     SharedDepots |->
        [k \in 1..Len(shared) |->
            [depot_id |-> IntToStr(sorted(shared)[k].depot_id),
             parent |-> IntToStr(sorted(shared)[k].parent)]]]

\* parse_app_data()
ParseAppData ==
    /\ acf_pc = "Parse"
    /\ LET r == ParseEntries(product_info, 1, self_depots, shared_depots)
       IN /\ self_depots' = r.depots
          /\ shared_depots' = r.shared_depots
    /\ acf_pc' = "Generate"
    /\ UNCHANGED <<product_info, acf, game_vars, disk0, cycle_vars, agg_vars,
                   pool_vars, sfd_vars, lua_vars>>

\* content = self.generate_acf_content()
GenerateAcf ==
    /\ acf_pc = "Generate"
    /\ acf' = <<generate_acf_content(self_depots, shared_depots)>>
    /\ acf_pc' = "Write"
    /\ UNCHANGED <<self_depots, shared_depots, product_info, game_vars, disk0,
                   cycle_vars, agg_vars, pool_vars, sfd_vars, lua_vars>>

\* a generator has been constructed and the product info fetched
AcfInit ==
    /\ CycleIdle
    /\ AggIdle
    /\ PoolIdle
    /\ SfdIdle
    /\ LuaIdle
    /\ GameIdle
    /\ disk0 = NoDisk
    /\ self_depots = <<>>
    /\ shared_depots = <<>>
    /\ product_info \in ProductInfos
    /\ acf = NoAcf
    /\ acf_pc = "Parse"

AcfNext == ParseAppData \/ GenerateAcf

SpecAcf == AcfInit /\ [][AcfNext]_vars

NonDirFiles == {f \in FileNames : ~is_directory(f)}

(* ------------------- a repair run on a partial install ------------------ *)
\* a repair-mode run (verify_only = False) that finds every file either
\* complete or absent, at least one of them absent
RepairInit ==
    /\ Init
    /\ ~verify_only
    /\ \A f \in NonDirFiles : exists[f] => data[f] = Content(f)
    /\ \E f \in NonDirFiles : ~exists[f]

\* the steps of the loop when verify_only is False
RepairNext ==
    \/ VerifyFile
    \/ VerifyEnd
    \/ \E f \in FileNames : WorkerOpen(f)
    \/ \E f \in FileNames : WorkerOpenFails(f)
    \/ \E f \in FileNames : WorkerWrite(f)
    \/ \E f \in FileNames : WorkerFails(f)
    \/ \E f \in FileNames : WorkerDone(f)
    \/ DownloadEnd

SpecRepair == RepairInit /\ [][RepairNext]_vars

\* a repair-mode run over local files in any state
RepairRunInit == Init /\ ~verify_only

SpecRepairRun == RepairRunInit /\ [][RepairNext]_vars

(* ---------------------- the executor of one phase ---------------------- *)
\* files handed to one Download phase beyond the size of the pool
PoolExtra == 1

\* SubmitAll that goes through the list twice
SubmitAll_Twice(fs) ==
    [i \in 1..(2 * Len(fs)) |->
        [file |-> fs[((i - 1) % Len(fs)) + 1], state |-> "queued"]]

\* "futures = [executor.submit(self._download_single_file, f, ...) for f in
\* files_to_download]": one work item per list position, in list order
SubmitAll(fs) == [i \in 1..Len(fs) |-> [file |-> fs[i], state |-> "queued"]]

RunningFutures == {i \in 1..Len(futures) : futures[i].state = "running"}

\* the Verify pass has ended with a non-empty list: the executor is created
\* and every listed file is submitted
ExecutorSubmit ==
    /\ pc = "Verify"
    /\ vidx > Len(all_files)
    /\ files_to_download # <<>>
    /\ futures' = SubmitAll(files_to_download)
    /\ pc' = "Download"
    /\ pbar' = 0
    /\ UNCHANGED <<verify_only, vidx, files_to_download, total_download_size,
                   exists, data, offset, task, passes, last, vr, max_off,
                   agg_vars, sfd_vars, lua_vars, aux_vars>>

\* ThreadStart without the max_workers limit
ThreadStart_NoLimit(i) ==
    /\ pc = "Download"
    /\ futures[i].state = "queued"
    /\ \A j \in 1..(i - 1) : futures[j].state # "queued"
    /\ futures' = [futures EXCEPT ![i].state = "running"]
    /\ UNCHANGED <<cycle_vars, agg_vars, sfd_vars, lua_vars, aux_vars>>

\* a pool thread takes the oldest work item off the queue; the executor
\* never has more than max_workers threads
ThreadStart(i) ==
    /\ pc = "Download"
    /\ futures[i].state = "queued"
    /\ \A j \in 1..(i - 1) : futures[j].state # "queued"
    /\ Cardinality(RunningFutures) < max_workers
    /\ futures' = [futures EXCEPT ![i].state = "running"]
    /\ UNCHANGED <<cycle_vars, agg_vars, sfd_vars, lua_vars, aux_vars>>

\* _download_single_file returns after the last piece
ThreadReturns(i) ==
    /\ pc = "Download"
    /\ futures[i].state = "running"
    /\ futures' = [futures EXCEPT ![i].state = "ok"]
    /\ UNCHANGED <<cycle_vars, agg_vars, sfd_vars, lua_vars, aux_vars>>

\* _download_single_file returns through its "except Exception"
ThreadFails(i) ==
    /\ pc = "Download"
    /\ futures[i].state = "running"
    /\ futures' = [futures EXCEPT ![i].state = "failed"]
    /\ UNCHANGED <<cycle_vars, agg_vars, sfd_vars, lua_vars, aux_vars>>

\* concurrent.futures.wait(futures) returns and the with block of the
\* executor is left: the while loop starts its next pass
ExecutorWait ==
    /\ pc = "Download"
    /\ \A i \in 1..Len(futures) : futures[i].state \in {"ok", "failed"}
    /\ pc' = "Verify"
    /\ vidx' = 1
    /\ files_to_download' = <<>>
    /\ total_download_size' = 0
    /\ passes' = passes + 1
    /\ UNCHANGED <<verify_only, exists, data, offset, task, pbar, last, vr,
                   max_off, futures, agg_vars, sfd_vars, lua_vars, aux_vars>>

\* a Verify pass has just listed max_workers + PoolExtra files
PoolInit ==
    /\ pc = "Verify"
    /\ verify_only = FALSE
    /\ vidx = Len(all_files) + 1
    /\ files_to_download = [i \in 1..(max_workers + PoolExtra) |-> i]
    /\ total_download_size = 0
    /\ exists = [f \in FileNames |-> FALSE]
    /\ data = [f \in FileNames |-> <<>>]
    /\ offset = [f \in FileNames |-> 0]
    /\ task = [f \in FileNames |-> "none"]
    /\ pbar = 0
    /\ passes = 1
    /\ last = NoCall
    /\ vr = [f \in FileNames |-> NoResult]
    /\ max_off = [f \in FileNames |-> 0]
    /\ AggIdle
    /\ ExtIdle

PoolNext ==
    \/ ExecutorSubmit
    \/ \E i \in 1..Len(futures) : ThreadStart(i)
    \/ \E i \in 1..Len(futures) : ThreadReturns(i)
    \/ \E i \in 1..Len(futures) : ThreadFails(i)
    \/ ExecutorWait

SpecPool == PoolInit /\ [][PoolNext]_vars

TypeOK ==
    /\ pc \in {"Idle", "Verify", "AwaitConfirm", "Download", "Done", "Cancelled"}
    /\ vidx \in 1..(Len(all_files) + 1)
    /\ \A f \in FileNames : offset[f] \in 0..size(f)

(* ================================ claims =============================== *)
\* the Verify pass that just ended flagged no non-directory file
NoRepairNeeded == \A f \in NonDirFiles : vr[f].called /\ vr[f].ret

\* C1: the loop starts in Verify and changes state only by Verify->Done
\* (exactly when no non-directory file needs repair), Verify->AwaitConfirm
\* (exactly when some file needs repair and the run is verify-only),
\* Verify->Download (otherwise), AwaitConfirm->Cancelled, AwaitConfirm->Download
\* (which switches verify_only off) and Download->Verify; Done and Cancelled
\* are the only states without a successor: a finished Verify pass, a pending
\* confirmation and a drained Download phase can always take their transition.
C1_Transitions ==
    /\ pc = "Verify"
    /\ [][ pc' # pc =>
            \/ /\ pc = "Verify"
               /\ pc' \in {"Done", "AwaitConfirm", "Download"}
               /\ (pc' = "Done") <=> NoRepairNeeded
               /\ (pc' = "AwaitConfirm") <=> (~NoRepairNeeded /\ verify_only)
               /\ (pc' = "Download") <=> (~NoRepairNeeded /\ ~verify_only)
            \/ /\ pc = "AwaitConfirm"
               /\ pc' \in {"Cancelled", "Download"}
               /\ (pc' = "Download") => ~verify_only'
            \/ /\ pc = "Download"
               /\ pc' = "Verify" ]_vars
    /\ [](pc \in {"Done", "Cancelled"} => ~ENABLED Next)
    /\ []((pc = "Verify" /\ vidx > Len(all_files)) => ENABLED VerifyEnd)
    /\ [](pc = "AwaitConfirm" => (ENABLED ConfirmYes /\ ENABLED ConfirmNo))
    /\ []((pc = "Download" /\ passes < MaxPasses
             /\ \A f \in FileNames : task[f] \in {"none", "ok", "failed"})
           => ENABLED DownloadEnd)

\* a run that was confirmed, downloaded and came back to Verify before Done
C1_Witness ==
    /\ pc = "Done"
    /\ passes = 2
    /\ \E f \in NonDirFiles : task[f] = "ok"

(* ------------------------------ C2 ------------------------------------- *)
\* the file entries of queue positions 1..k whose manifest was decoded, in
\* encounter order
RECURSIVE Encountered(_)
Encountered(k) ==
    IF k = 0 THEN <<>>
    ELSE LET d == depots_to_download[k] IN
         Encountered(k - 1) \o
         (IF d.decodable
          THEN [j \in 1..Len(d.files) |->
                  [filename |-> d.files[j], file_info |-> <<k, j>>,
                   depot_id |-> d.depot_id]]
          ELSE <<>>)

\* positions of E that hold a given filename
Occ(E, filename) == {n \in 1..Len(E) : E[n].filename = filename}
SetMax(S) == CHOOSE x \in S : \A y \in S : y <= x

\* the overwrite events E gives rise to: one per entry whose filename was
\* met before, naming the owner at that moment and the new owner
RECURSIVE Events(_, _)
Events(E, n) ==
    IF n = 0 THEN <<>>
    ELSE LET before == {m \in Occ(E, E[n].filename) : m < n} IN
         IF before = {} THEN Events(E, n - 1)
         ELSE Append(Events(E, n - 1),
                     <<E[n].filename, E[SetMax(before)].depot_id, E[n].depot_id>>)

\* C2: after every processed depot the map holds exactly one entry per
\* distinct path met so far, that entry is the file entry and depot id of
\* the last depot (in queue order) whose manifest lists the path, and the
\* overwrite log holds exactly one event (path, previous owner, new owner)
\* per collision, in encounter order; a path listed by exactly two depots
\* A (earlier) and B (later) resolves to B's entry with the single event
\* (path, A, B).
C2_Aggregation ==
    LET E == Encountered(didx - 1) IN
    /\ \A m \in 1..Len(master_file_map) : Occ(E, master_file_map[m].filename) # {}
    /\ \A n \in 1..Len(E) :
          LET hits == {m \in 1..Len(master_file_map) :
                          master_file_map[m].filename = E[n].filename}
              lst == E[SetMax(Occ(E, E[n].filename))]
          IN /\ Cardinality(hits) = 1
             /\ \A m \in hits : /\ master_file_map[m].file_info = lst.file_info
                                /\ master_file_map[m].depot_id = lst.depot_id
    /\ overwrite_log = Events(E, Len(E))
    /\ \A path \in Paths :
          Cardinality(Occ(E, path)) = 2 =>
             LET A == E[CHOOSE n \in Occ(E, path) : n # SetMax(Occ(E, path))]
                 B == E[SetMax(Occ(E, path))]
             IN SelectSeq(overwrite_log, LAMBDA ev : ev[1] = path)
                   = << <<path, A.depot_id, B.depot_id>> >>

\* a finished aggregation in which a path of a first depot was overridden by
\* a third one while the depot between them could not be decoded
C2_Witness ==
    /\ didx > Len(depots_to_download)
    /\ Len(depots_to_download) = 3
    /\ depots_to_download[1].decodable
    /\ ~depots_to_download[2].decodable
    /\ depots_to_download[3].decodable
    /\ Len(overwrite_log) = 2
    /\ depots_to_download[1].depot_id # depots_to_download[3].depot_id

(* --------------------------- C3 .. C6 ---------------------------------- *)
\* a _verify_and_repair_file call has just returned
Called == last.file # "-"

\* the bytes a local file holds at the layout position of chunk i
OnDisk(f, bytes, i) ==
    SubSeq(bytes, PrefixSize(f, i - 1) + 1, Min(PrefixSize(f, i), Len(bytes)))

\* chunk i of f is present on disk with the bytes of its digest
ChunkMatches(f, bytes, i) == sha1(OnDisk(f, bytes, i)) = chunks(f)[i].sha

\* the number N of leading chunks of f that match
MatchCount(f, bytes) ==
    SetMax({n \in 0..Len(chunks(f)) : \A i \in 1..n : ChunkMatches(f, bytes, i)})

\* the outcome the claim C3 describes for the last call
TruncatedToPrefix ==
    LET f == last.file
        N == MatchCount(f, last.pre_data)
    IN /\ data[f] = SubSeq(last.pre_data, 1, PrefixSize(f, N))
       /\ Len(data[f]) = PrefixSize(f, N)
       /\ offset[f] = PrefixSize(f, N)
       /\ last.verified_offset = PrefixSize(f, N)
       /\ ~last.ret
       /\ InSeq(f, files_to_download)

\* the outcome of a call that ran into an IOError
LeftAsAbsent ==
    LET f == last.file
    IN /\ data[f] = last.pre_data
       /\ exists[f]
       /\ offset[f] = 0
       /\ ~last.ret
       /\ InSeq(f, files_to_download)

\* the case of C3: an existing file whose first N chunks match and whose
\* chunk N+1 differs or is missing
C3_Case ==
    /\ Called
    /\ last.pre_exists
    /\ MatchCount(last.file, last.pre_data) < Len(chunks(last.file))

\* C3 as stated: for a local file whose first N chunks match and whose chunk
\* N+1 differs or is missing, the call truncates the file to the sum of the
\* sizes of the first N chunks, sets the resume offset to it and reports the
\* file as needing repair.
C3_Original == C3_Case => TruncatedToPrefix

\* C3 amended: the same, unless the call runs into an IOError, in which case
\* the file is left as it was, the resume offset is 0 and the file is still
\* reported as needing repair.
C3_Truncation ==
    C3_Case => IF last.io THEN LeftAsAbsent ELSE TruncatedToPrefix

\* file "a" with a good first chunk and a wrong second one, cut after chunk 1
C3_Witness ==
    /\ C3_Case
    /\ ~last.io
    /\ last.file = "a"
    /\ last.pre_data = <<0, 1, 0>>
    /\ data["a"] = <<0, 1>>
    /\ offset["a"] = 2

\* the case of C4: an existing file all of whose chunks match
C4_Case ==
    /\ Called
    /\ last.pre_exists
    /\ MatchCount(last.file, last.pre_data) = Len(chunks(last.file))

\* the file of the last call has the bytes and the length it had before
Unchanged == data[last.file] = last.pre_data /\ exists[last.file] = last.pre_exists

\* C4 as stated: when the on-disk bytes match all chunk digests, every call,
\* in any pass, reports the file valid with verified offset total_size and
\* leaves its bytes and length unchanged.
C4_Original ==
    C4_Case => /\ last.ret
               /\ last.verified_offset = size(last.file)
               /\ ~InSeq(last.file, files_to_download)
               /\ Unchanged

\* C4 amended: every call leaves the bytes and the length unchanged, and
\* every call that runs into no IOError reports the file valid with verified
\* offset total_size; a call that runs into an IOError reports the file as
\* needing repair from offset 0.
C4_Idempotent ==
    C4_Case => /\ Unchanged
               /\ IF last.io THEN LeftAsAbsent
                  ELSE /\ last.ret
                       /\ last.verified_offset = size(last.file)
                       /\ ~InSeq(last.file, files_to_download)

\* a file repaired by the Download phase is found valid by the second pass
C4_Witness ==
    /\ C4_Case
    /\ ~last.io
    /\ last.ret
    /\ passes = 2
    /\ last.file = "a"
    /\ task["a"] = "ok"

\* the Verify pass is about to call _verify_and_repair_file on an absent file
AbsentCall ==
    /\ pc = "Verify"
    /\ vidx <= Len(all_files)
    /\ ~is_directory(all_files[Min(vidx, Len(all_files))])
    /\ ~exists[all_files[Min(vidx, Len(all_files))]]

\* C5: for an absent local file the call yields resume offset 0, reports the
\* file as needing repair and changes nothing on disk: the file is not
\* created and no other file changes.
C5_Absent ==
    [][ AbsentCall =>
          LET f == all_files[vidx] IN
          /\ exists' = exists
          /\ data' = data
          /\ offset'[f] = 0
          /\ last'.file = f
          /\ last'.verified_offset = 0
          /\ ~last'.ret
          /\ files_to_download' = Append(files_to_download, f) ]_vars

\* a call on an absent file has returned, next to a file that is present
C5_Witness ==
    /\ Called
    /\ last.file = "b"
    /\ ~last.pre_exists
    /\ ~exists["b"]
    /\ exists["a"]
    /\ offset["b"] = 0
    /\ InSeq("b", files_to_download)

\* the last call cut bytes off the file
Discarded == Called /\ Len(data[last.file]) < Len(last.pre_data)

\* C6 as stated: whenever verification truncates a file, no chunk whose
\* on-disk bytes match its digest is discarded, so that at most the one
\* boundary chunk is downloaded again.
C6_Original ==
    Discarded =>
       \A i \in 1..Len(chunks(last.file)) :
          ChunkMatches(last.file, last.pre_data, i)
             => /\ PrefixSize(last.file, i) <= Len(data[last.file])
                /\ OnDisk(last.file, data[last.file], i)
                      = OnDisk(last.file, last.pre_data, i)

\* C6 amended: whenever verification truncates a file, it keeps exactly the
\* leading chunks that match their digests, up to the first chunk that does
\* not match or is cut short; every discarded byte lies at or behind the
\* start of that first failing chunk, and the chunks behind it are discarded
\* even when their on-disk bytes match, so more than one chunk may have to
\* be downloaded again.
C6_KeepsVerifiedPrefix ==
    (Called /\ last.truncated) =>
       LET f == last.file
           N == MatchCount(f, last.pre_data)
       IN /\ N < Len(chunks(f))
          /\ ~ChunkMatches(f, last.pre_data, N + 1)
          /\ data[f] = SubSeq(last.pre_data, 1, PrefixSize(f, N))
          /\ \A i \in 1..N : /\ ChunkMatches(f, data[f], i)
                             /\ OnDisk(f, data[f], i) = OnDisk(f, last.pre_data, i)

\* file "a" with a good first chunk: the chunk is kept, the rest is cut
C6_Witness ==
    /\ Discarded
    /\ last.truncated
    /\ last.file = "a"
    /\ last.pre_data = <<0, 1, 0>>
    /\ data["a"] = <<0, 1>>

(* --------------------------- C7 .. C10 --------------------------------- *)
\* position of a file in the Verify pass
FileIndex(f) == CHOOSE i \in 1..Len(all_files) : all_files[i] = f

\* the worker of f has opened the file in the current Download phase
Worked(f) == pc = "Download" /\ task[f] \in {"running", "failed", "ok"}

\* C7: when verification of an existing file runs into an IOError the file
\* is treated as absent (resume offset 0, needs repair), and once the
\* following download of the file has succeeded its content is exactly the
\* manifest's bytes from offset 0, with no old byte left in front of them.
C7_RecreatedFromScratch ==
    \A f \in NonDirFiles :
       (pc = "Download" /\ vr[f].io) =>
          /\ vr[f].verified_offset = 0
          /\ ~vr[f].ret
          /\ task[f] # "none"
          /\ task[f] = "ok" => data[f] = Content(f)

\* the bytes appended to f in the current Download phase
Appended(f) == SubSeq(Content(f), vr[f].verified_offset + 1, offset[f])

\* the first n bytes
Prefix(bytes, n) == SubSeq(bytes, 1, Min(n, Len(bytes)))

\* C8: in a Download phase every write is an append; the bytes below the
\* resume offset set by the preceding Verify pass are never modified, and
\* whenever a worker fails or is interrupted the file consists of that
\* verified prefix followed only by the appended bytes.
C8_AppendOnly ==
    /\ [][ pc = "Download" =>
             \A f \in NonDirFiles :
                Prefix(data'[f], Len(data[f])) = data[f] ]_vars
    /\ [](\A f \in NonDirFiles :
             Worked(f) =>
                /\ Prefix(data[f], vr[f].verified_offset)
                      = Prefix(vr[f].post_data, vr[f].verified_offset)
                /\ data[f] = Prefix(vr[f].post_data, vr[f].verified_offset)
                                \o Appended(f))

\* a Verify pass has just computed the verified offset of file f
VerifiedStep(f) ==
    /\ pc = "Verify"
    /\ vidx <= Len(all_files)
    /\ all_files[Min(vidx, Len(all_files))] = f
    /\ vidx' = vidx + 1

\* C9 as stated: the offset a Verify pass computes for a file is never below
\* the offset an earlier pass computed for it, whatever the downloads did.
C9_Original ==
    [][ \A f \in NonDirFiles :
           VerifiedStep(f) => last'.verified_offset >= max_off[f] ]_vars

\* C9 amended: the offset computed by a Verify pass that runs into no IOError
\* on the file is never below the offset computed by any earlier pass; a
\* pass that runs into an IOError on the file computes 0, after which the
\* whole file is transferred again.
C9_Monotone ==
    [][ \A f \in NonDirFiles :
           VerifiedStep(f) =>
              IF last'.io THEN last'.verified_offset = 0 /\ offset'[f] = 0
              ELSE last'.verified_offset >= max_off[f] ]_vars

\* second pass over "a" after a download that failed half way: the offset
\* went from 0 to 2
C9_Witness ==
    /\ pc = "Verify"
    /\ passes = 2
    /\ last.file = "a"
    /\ ~last.io
    /\ task["a"] = "failed"
    /\ last.verified_offset = 2
    /\ max_off["a"] = 2
    /\ last.pre_exists
    /\ Len(last.pre_data) = 2

\* the worker steps of one task
WorkerStep(f) ==
    \/ WorkerOpen(f) \/ WorkerOpenFails(f) \/ WorkerWrite(f)
    \/ WorkerFails(f) \/ WorkerDone(f)

\* C10: a failure in one worker is caught in that worker and does not
\* cancel or alter the task of any other file of the phase; every other
\* task still runs to its own completion or failure; and the failed file is
\* flagged as needing repair by the next Verify pass.
C10_FailureIsolated ==
    /\ [][ \A f \in NonDirFiles :
              (task[f] # "failed" /\ task'[f] = "failed") =>
                 /\ pc' = pc
                 /\ \A g \in FileNames \ {f} :
                       /\ task'[g] = task[g]
                       /\ data'[g] = data[g]
                       /\ exists'[g] = exists[g]
                       /\ offset'[g] = offset[g] ]_vars
    /\ [](\A g \in NonDirFiles :
             (pc = "Download" /\ task[g] \in {"queued", "running"})
                => ENABLED WorkerStep(g))
    /\ [](\A f \in NonDirFiles :
             (pc = "Verify" /\ passes > 1 /\ task[f] = "failed"
                /\ FileIndex(f) < vidx)
                => (vr[f].called /\ ~vr[f].ret))


RECURSIVE Count(_, _)
\* number of positions of sequence fs that hold x
Count(fs, x) ==
    IF fs = <<>> THEN 0
    ELSE (IF Head(fs) = x THEN 1 ELSE 0) + Count(Tail(fs), x)

\* C11: at no moment are more than max_workers download tasks running, and
\* once a Download phase has been left (the next Verify pass may start) every
\* task it submitted has completed or failed.
C11_PoolBound ==
    /\ Cardinality(RunningFutures) <= max_workers
    /\ pc # "Download" =>
          \A i \in 1..Len(futures) : futures[i].state \in {"ok", "failed"}

\* all max_workers threads are busy while a submitted task still waits
C11_Witness ==
    /\ pc = "Download"
    /\ Cardinality(RunningFutures) = max_workers
    /\ \E i \in 1..Len(futures) : futures[i].state = "queued"

\* C12: in a Download phase every file listed for repair has exactly one
\* task, no task is for a file that is not listed, and no two tasks that run
\* at the same time are for the same path.
C12_OneTaskPerFile ==
    pc = "Download" =>
       /\ \A k \in 1..Len(files_to_download) :
             Cardinality({i \in 1..Len(futures) :
                             futures[i].file = files_to_download[k]}) = 1
       /\ \A i \in 1..Len(futures) : Count(files_to_download, futures[i].file) = 1
       /\ \A i, j \in RunningFutures : i # j => futures[i].file # futures[j].file

\* several tasks run at the same time, each on its own file
C12_Witness ==
    /\ pc = "Download"
    /\ Cardinality(RunningFutures) >= 2
    /\ \E i \in 1..Len(futures) : futures[i].state = "ok"

\* bytes the workers of the current phase have written so far: what every
\* listed file has gained since its verification in the pass before
BytesWritten ==
    SumSeq([k \in 1..Len(files_to_download) |->
               Len(data[files_to_download[k]])
                 - Len(vr[files_to_download[k]].post_data)])

Drained == \A f \in FileNames : task[f] \in {"none", "ok", "failed"}

WorkerPending == \E f \in FileNames : task[f] \in {"queued", "running"}

\* a step in which _verify_and_repair_file is called
VerifyCall == vidx' = vidx + 1

\* C14: no worker is pending while a Verify pass is in progress, a file is
\* verified only in Verify and with no worker pending, a worker acts only in
\* Download, and the two phases alternate: Download is entered only from a
\* completed Verify pass (directly or through the confirmation) and is left
\* only into the next Verify pass.
C14_NoOverlap ==
    /\ [](pc = "Verify" => ~WorkerPending)
    /\ [][VerifyCall => pc = "Verify" /\ pc' = "Verify" /\ ~WorkerPending
                           /\ task' = task /\ pbar' = pbar]_vars
    /\ [][(task' # task \/ pbar' # pbar) =>
              \/ pc = "Download" /\ pc' = "Download" /\ vidx' = vidx
              \/ pc # "Download" /\ pc' = "Download"]_vars
    /\ [][(pc # "Download" /\ pc' = "Download") =>
              /\ pc \in {"Verify", "AwaitConfirm"}
              /\ vidx > Len(all_files)]_vars
    /\ [][(pc = "Download" /\ pc' # "Download") =>
              pc' = "Verify" /\ vidx' = 1 /\ ~WorkerPending]_vars

\* a second Verify pass is under way after a phase in which a worker wrote
C14_Witness ==
    /\ pc = "Verify"
    /\ passes = 2
    /\ vidx = 2
    /\ \E f \in FileNames : task[f] = "ok"

\* the first Verify pass of a run ends and its Download phase begins
FirstPhaseStarts == pc = "Verify" /\ pc' = "Download" /\ passes = 1

\* the second Verify pass ends after a phase in which every task succeeded
SecondPassEnds ==
    /\ pc = "Verify" /\ passes = 2 /\ vidx > Len(all_files) /\ pc' # pc
    /\ \A f \in FileNames : task[f] \in {"none", "ok"}

\* C15 as stated: in a repair-mode run over files that are each complete or
\* absent, k >= 1 of them absent, the first pass starts a task for exactly the
\* absent files, no run is Done after one pass, and when every task has
\* succeeded the second pass ends in Done.
C15_Original ==
    /\ [][FirstPhaseStarts =>
             \A f \in NonDirFiles : (task'[f] = "queued") <=> ~exists[f]]_vars
    /\ [](pc = "Done" => passes >= 2)
    /\ [][SecondPassEnds => pc' = "Done"]_vars

\* no verify call of the pass that has just ended ran into an IOError
NoIOError == \A f \in FileNames : ~vr[f].io

\* C15 (amended): the same, for passes in which no verify call runs into an
\* IOError.
C15_TwoPasses ==
    /\ [][(FirstPhaseStarts /\ NoIOError) =>
             \A f \in NonDirFiles : (task'[f] = "queued") <=> ~exists[f]]_vars
    /\ [](pc = "Done" => passes >= 2)
    /\ [][(SecondPassEnds /\ NoIOError) => pc' = "Done"]_vars

\* Done after two passes, the absent file downloaded, the valid one untouched
C15_Witness ==
    /\ pc = "Done"
    /\ passes = 2
    /\ NoIOError
    /\ \E f \in NonDirFiles : task[f] = "ok"
    /\ \E f \in NonDirFiles : task[f] = "none" /\ data[f] = Content(f)

\* a task of the Download phase before the current pass failed
PhaseFailed == \E f \in FileNames : task[f] = "failed"

LoadEnds ==
    /\ load_pc' = "Idle"
    /\ sfd_file' = sfd_file
    /\ load_result' \in {"loaded", "incomplete", "error"}

\* C17: a load of a descriptor that was damaged (its tail lost, a line
\* replaced by unreadable text, or a line lost) ends with the queue cleared:
\* depots_to_download empty and app_id unset.
C17_MalformedCleared ==
    [][(LoadEnds /\ sfd_defect # NoDefect) =>
          (depots_to_download' = <<>> /\ app_id' = None)]_vars

\* the cache entries the queue accounts for
QueueKeys ==
    {[key |-> depots_to_download[k].depot_id,
      value |-> depots_to_download[k].depot_key] :
         k \in 1..Len(depots_to_download)}
QueueManifests ==
    {[key |-> <<app_id, depots_to_download[k].depot_id,
                depots_to_download[k].manifest_id>>,
      value |-> depots_to_download[k].manifest_content] :
         k \in 1..Len(depots_to_download)}

IntactLoaded ==
    /\ load_pc = "Idle"
    /\ sfd_file # NoFile
    /\ sfd_defect = NoDefect
    /\ load_result \in {"loaded", "incomplete", "error"}

RoundTrips ==
    /\ app_id = Some(collected.app_id)
    /\ depots_to_download = collected.depots
    /\ SfdLines(app_id[1], depots_to_download) = sfd_file

\* C19 as stated: loading the file the writer wrote for a depot list gives
\* the app id and the records of the list, in order, and writing the loaded
\* queue again gives the file again, sentinel last.
C19_Original == IntactLoaded => RoundTrips

\* C19 (amended): the same for a depot list whose payloads are manifests the
\* CDN client parses.
C19_RoundTrip ==
    (IntactLoaded /\ \A k \in 1..Len(collected.depots) :
                        ManifestParses(collected.depots[k].manifest_content))
       => RoundTrips

\* a list of two records with a non-empty key has gone through file and load
C19_Witness ==
    /\ IntactLoaded
    /\ load_result = "loaded"
    /\ Len(depots_to_download) = 2
    /\ depots_to_download[1].depot_key # <<>>
    /\ RoundTrips

\* C20: the depot ids of the active queue are pairwise distinct.
C20_DistinctDepotIds ==
    \A i, j \in 1..Len(depots_to_download) :
       i # j => depots_to_download[i].depot_id # depots_to_download[j].depot_id

\* depot d has a directive of the kind in the .lua file
HasDirective(d, kind) ==
    \E k \in 1..Len(lua_file) :
       lua_file[k].kind = kind /\ lua_file[k].depot_id = d

\* C21: when the import has ended, the depots it has kept are exactly those
\* with an addappid directive and a setManifestid directive in the file,
\* in whatever order and number, whose manifest file is present.
C21_KeepsCompleteDepots ==
    lua_pc \in {"Written", "Failed"} =>
       {collected.depots[k].depot_id : k \in 1..Len(collected.depots)}
          = {d \in LuaDepotIds :
                /\ HasDirective(d, "addappid")
                /\ HasDirective(d, "setManifestid")
                /\ <<d, LuaManifestId>> \in manifest_files}

\* C22: from the entry of download_game on, at every step and after a crash
\* at any step, the final log path holds the complete log it held before or
\* the complete new log: it is never missing when a log existed before and
\* never holds a part of a text.
C22_LogReplacedAtomically ==
    game_pc # "Idle" =>
       \/ final_log = prev_log
       \/ final_log = [present |-> TRUE, text |-> LogText(overwrite_log)]

\* the run has reported 'Game Downloaded and Verified!'
ReportedSuccess == game_pc \in {"WriteTemp", "Unlink", "Rename", "Generate", "Finished"}

\* C27: a run that reports success has aggregated the files of every depot
\* of the queue; no depot whose manifest could not be fetched or decoded is
\* left out of a successful run.
C27_SuccessCoversEveryDepot ==
    ReportedSuccess =>
       \A k \in 1..Len(depots_to_download) : depots_to_download[k].decodable

\* the numbers a block of the generated text lists as depot ids
BlockIds(block) == [k \in 1..Len(block) |-> ParseInt(block[k].depot_id).val]

\* a list of numbers that rises strictly
Ascending(ids) == \A k \in 1..(Len(ids) - 1) : ids[k] < ids[k + 1]

\* the entries of the product info of one kind
InfoIds(kind) ==
    {ParseInt(product_info[k].depot_id_str).val :
        k \in {j \in 1..Len(product_info) : product_info[j].kind = kind}}

\* C23: whatever the order in which the depots were parsed, the generated
\* text lists the installable depots and the shared depots each in ascending
\* numeric depot-id order, each block holding exactly the depots of its kind,
\* and SizeOnDisk is the sum of the sizes of all installable depots.
C23_AcfSortedAndSummed ==
    acf # NoAcf =>
       /\ Ascending(BlockIds(acf[1].InstalledDepots))
       /\ Ascending(BlockIds(acf[1].SharedDepots))
       /\ {BlockIds(acf[1].InstalledDepots)[k] :
              k \in 1..Len(acf[1].InstalledDepots)} = InfoIds("installable")
       /\ {BlockIds(acf[1].SharedDepots)[k] :
              k \in 1..Len(acf[1].SharedDepots)} = InfoIds("shared")
       /\ ParseInt(acf[1].SizeOnDisk).val
             = SumSeq([k \in 1..Len(product_info) |->
                         IF product_info[k].kind = "installable"
                         THEN ParseInt(product_info[k].size).val ELSE 0])

\* depot 20 (size 50) parsed before depot 10 (size 100): the text lists 10
\* before 20 and a SizeOnDisk of 150
C23_Witness ==
    /\ acf # NoAcf
    /\ Len(product_info) = 2
    /\ product_info[1] = [depot_id_str |-> IntToStr(20), kind |-> "installable",
                          gid |-> 5, size |-> IntToStr(50)]
    /\ product_info[2] = [depot_id_str |-> IntToStr(10), kind |-> "installable",
                          gid |-> 5, size |-> IntToStr(100)]
    /\ BlockIds(acf[1].InstalledDepots) = <<10, 20>>
    /\ acf[1].SizeOnDisk = <<"1", "5", "0">>

\* C24: the loop is at Done only when every non-directory file of the set
\* exists and holds exactly the concatenation of its chunks: its length is
\* its total size and no byte follows the last chunk.
C24_DoneIsClean ==
    pc = "Done" =>
       \A f \in NonDirFiles :
          /\ exists[f]
          /\ Len(data[f]) = size(f)
          /\ data[f] = Content(f)

\* n is the sum of the sizes of the first chunks of f, for some number of them
IsPrefixSum(f, n) == \E k \in 0..Len(chunks(f)) : n = PrefixSize(f, k)

\* C25: whenever a download task of a file is about to start and the
\* preceding verification of the file ran into no IO error, the local file
\* is absent with resume offset 0 or has a length of exactly the resume
\* offset, and the offset is a prefix sum of the file's chunk sizes.
C25_ResumeOffsetMatchesFile ==
    \A f \in FileNames :
       (pc = "Download" /\ task[f] = "queued" /\ ~vr[f].io) =>
          /\ \/ ~exists[f] /\ offset[f] = 0
             \/ exists[f] /\ Len(data[f]) = offset[f]
          /\ IsPrefixSum(f, offset[f])

\* a task is about to resume a file that was cut back to a verified prefix
\* of one chunk or more
C25_Witness ==
    \E f \in FileNames :
       /\ pc = "Download"
       /\ task[f] = "queued"
       /\ vr[f].called
       /\ ~vr[f].io
       /\ exists[f]
       /\ offset[f] > 0
       /\ Len(data[f]) = offset[f]

\* C26 as stated: when a verify-only run ends in Cancelled, every local
\* file has the bytes and the length it had before the run.
C26_Original ==
    (pc = "Cancelled" /\ disk0 # NoDisk) =>
       \A f \in FileNames :
          /\ exists[f] = disk0[1].exists[f]
          /\ data[f] = disk0[1].data[f]

\* C26: when a verify-only run ends in Cancelled, no file has been created
\* or removed, and every file either has the bytes it had before the run or
\* has been cut back to its resume offset: it holds the first bytes it held
\* before, which are the first bytes of its manifest content, and is shorter
\* than before.
C26_OnlyTruncated ==
    (pc = "Cancelled" /\ disk0 # NoDisk) =>
       \A f \in FileNames :
          /\ exists[f] = disk0[1].exists[f]
          /\ \/ data[f] = disk0[1].data[f]
             \/ /\ Len(data[f]) = offset[f]
                /\ offset[f] < Len(disk0[1].data[f])
                /\ data[f] = SubSeq(disk0[1].data[f], 1, offset[f])
                /\ data[f] = SubSeq(Content(f), 1, offset[f])

\* a declined verify-only run has left a file shorter than it found it
C26_Witness ==
    /\ pc = "Cancelled"
    /\ disk0 # NoDisk
    /\ \E f \in FileNames :
          /\ exists[f]
          /\ Len(data[f]) < Len(disk0[1].data[f])

\* f is absent or does not begin with the whole of its manifest content
NeedsRepair(f) ==
    \/ ~exists[f]
    \/ Len(data[f]) < size(f)
    \/ SubSeq(data[f], 1, size(f)) # Content(f)

\* a Verify pass ends
PassEnds == pc = "Verify" /\ vidx > Len(all_files) /\ pc' # pc

\* a Download phase begins
PhaseBegins == pc = "Verify" /\ pc' = "Download"

====
